---------------------------- MODULE Spec2Model ----------------------------
(***************************************************************************)
(* MaxPoolProgram of src/backends/webgpu/src/kernels/maxpool_webgpu.ts:    *)
(* the constructor (dispatch size, emitted getOutputCoords, emitted main)  *)
(* and the execution of the emitted shader by the invocations of a         *)
(* dispatch.                                                               *)
(***************************************************************************)
EXTENDS Integers, Sequences, FiniteSets

VARIABLES convInfo, dispatchArrangement, x, program, inv, written

vars == <<convInfo, dispatchArrangement, x, program, inv, written>>

(***************************************************************************)
(* Bounds of the model.                                                    *)
(***************************************************************************)
MaxBatch == 2
MaxChannels == 2
MaxOut == 3
MaxIn == 4
MaxStride == 2
MaxDilation == 2
MaxPad == 1
MaxFilter == 3
MaxDim == 2

(***************************************************************************)
(* JavaScript numbers that may be missing: Num(n) is the number n, and     *)
(* Undefined stands for both `undefined` (an array read past the end) and  *)
(* the NaN every arithmetic operation makes of it.                         *)
(***************************************************************************)
Num(n) == <<n>>
Undefined == <<>>
IsNum(v) == Len(v) = 1
Val(v) == v[1]

\* shape[d] of a JavaScript array, d counted from 0.
Elem(shape, d) == IF (d + 1) \in DOMAIN shape THEN Num(shape[d + 1]) ELSE Undefined

\* a * b on JavaScript numbers.
Times(a, b) == IF IsNum(a) /\ IsNum(b) THEN Num(Val(a) * Val(b)) ELSE Undefined

\* Variant of MathCeilDiv that rounds down.
MathFloorDiv(p, t) == IF ~IsNum(p) THEN Undefined ELSE Num(Val(p) \div t)

\* Math.ceil(p / t) for a JavaScript number p and a positive integer t.
MathCeilDiv(p, t) ==
    IF ~IsNum(p) THEN Undefined
    ELSE IF Val(p) % t = 0 THEN Num(Val(p) \div t) ELSE Num((Val(p) \div t) + 1)

\* tileSize: [number, number, number] = [2, 2, 1]
tileSize == <<2, 2, 1>>

\* const dispatchArrangement = [[1], [2], [0, 3]]
FixedArrangement == <<(<<1>>), (<<2>>), (<<0, 3>>)>>

(***************************************************************************)
(* arrayProduct: throws on an empty array, otherwise the product of the    *)
(* elements, accumulated from 1 in index order.                            *)
(***************************************************************************)
RECURSIVE ProductLoop(_, _, _)
ProductLoop(arr, i, product) ==
    IF i > Len(arr) THEN product
    ELSE ProductLoop(arr, i + 1, Times(product, arr[i]))

\* Variant of arrayProduct that takes the product of no elements to be 1.
arrayProductEmptyIsOne(arr) ==
    [throws |-> FALSE, value |-> ProductLoop(arr, 1, Num(1))]

arrayProduct(arr) ==
    IF Len(arr) = 0
    THEN [throws |-> TRUE, value |-> Undefined]
    ELSE [throws |-> FALSE, value |-> ProductLoop(arr, 1, Num(1))]

\* dispatchArrangement[i].map(d => this.outputShape[d])
GroupDims(arrangement, outputShape, i) ==
    [j \in 1..Len(arrangement[i]) |-> Elem(outputShape, arrangement[i][j])]

\* One component of this.dispatch.
DispatchComponent(arrangement, outputShape, i) ==
    LET p == arrayProduct(GroupDims(arrangement, outputShape, i))
    IN  [throws |-> p.throws, value |-> MathCeilDiv(p.value, tileSize[i])]

(***************************************************************************)
(* util.computeStrides(shape): the row-major strides of all dimensions but *)
(* the last (rank - 1 of them; none for a rank below 2).                   *)
(***************************************************************************)
RECURSIVE StrideAt(_, _)
StrideAt(shape, i) ==
    IF i = Len(shape) - 1 THEN shape[Len(shape)]
    ELSE Times(StrideAt(shape, i + 1), shape[i + 1])

computeStrides(shape) ==
    IF Len(shape) < 2 THEN <<>>
    ELSE [i \in 1..(Len(shape) - 1) |-> StrideAt(shape, i)]


(***************************************************************************)
(* getCoordsDataType(rank): the name of the integer vector type of that    *)
(* rank, represented by the rank.                                          *)
(***************************************************************************)
getCoordsDataType(rank) == rank

(***************************************************************************)
(* The statements generateGetOutputCoords appends to gatherDimensionsStr.  *)
(* A variable is <<"d", k>> (dk) or <<"index", i>> (index i); an axis is   *)
(* 0, 1 or 2 for gl_GlobalInvocationID.x, .y or .z.                        *)
(*   declInv    uint var = gl_GlobalInvocationID.axis;                     *)
(*   declDiv    uint var = idx / stride;                                   *)
(*   declRem    uint var = idx - d * stride;                               *)
(*   subAssign  idx -= d * stride;                                         *)
(***************************************************************************)
NoVar == <<"none", 0>>
DVar(k) == <<"d", k>>
IndexVar(i) == <<"index", i>>

DeclInv(v, axis) ==
    [op |-> "declInv", var |-> v, axis |-> axis, idx |-> NoVar, d |-> NoVar,
     stride |-> Undefined]
DeclDiv(v, idx, stride) ==
    [op |-> "declDiv", var |-> v, axis |-> 0, idx |-> idx, d |-> NoVar,
     stride |-> stride]
DeclRem(v, idx, d, stride) ==
    [op |-> "declRem", var |-> v, axis |-> 0, idx |-> idx, d |-> d,
     stride |-> stride]
SubAssign(idx, d, stride) ==
    [op |-> "subAssign", var |-> NoVar, axis |-> 0, idx |-> idx, d |-> d,
     stride |-> stride]

\* Variant of StrideLoop that also divides for the last dimension of the
\* group, by the stride of the dimension before it.
RECURSIVE StrideLoopDivLast(_, _, _, _)
StrideLoopDivLast(arr, i, strides, j) ==
    IF j > Len(strides) THEN <<>>
    ELSE <<DeclDiv(DVar(arr[j]), IndexVar(i), strides[j])>>
         \o (IF j = Len(strides)
             THEN <<DeclDiv(DVar(arr[j + 1]), IndexVar(i), strides[j])>>
             ELSE <<SubAssign(IndexVar(i), DVar(arr[j]), strides[j])>>)
         \o StrideLoopDivLast(arr, i, strides, j + 1)

\* Variant of StrideLoop that leaves the running remainder as it is after a
\* dimension that is not the last but one.
RECURSIVE StrideLoopNoSubtract(_, _, _, _)
StrideLoopNoSubtract(arr, i, strides, j) ==
    IF j > Len(strides) THEN <<>>
    ELSE <<DeclDiv(DVar(arr[j]), IndexVar(i), strides[j])>>
         \o (IF j = Len(strides)
             THEN <<DeclRem(DVar(arr[j + 1]), IndexVar(i), DVar(arr[j]), strides[j])>>
             ELSE <<>>)
         \o StrideLoopNoSubtract(arr, i, strides, j + 1)

\* for (let j = 0; j < strides.length; j++) { ... }, j counted from 1 here;
\* i is the source's group index (0, 1, 2).
RECURSIVE StrideLoop(_, _, _, _)
StrideLoop(arr, i, strides, j) ==
    IF j > Len(strides) THEN <<>>
    ELSE <<DeclDiv(DVar(arr[j]), IndexVar(i), strides[j])>>
         \o (IF j = Len(strides)
             THEN <<DeclRem(DVar(arr[j + 1]), IndexVar(i), DVar(arr[j]), strides[j])>>
             ELSE <<SubAssign(IndexVar(i), DVar(arr[j]), strides[j])>>)
         \o StrideLoop(arr, i, strides, j + 1)

\* The body of the loop over dispatchArrangement for group number i (1..3).
GroupCode(arrangement, outputShape, i) ==
    LET arr == arrangement[i]
    IN  IF Len(arr) = 1
        THEN <<DeclInv(DVar(arr[1]), i - 1)>>
        ELSE <<DeclInv(IndexVar(i - 1), i - 1)>>
             \o StrideLoop(arr, i - 1,
                           computeStrides(GroupDims(arrangement, outputShape, i)), 1)

RECURSIVE GatherLoop(_, _, _)
GatherLoop(arrangement, outputShape, i) ==
    IF i > Len(arrangement) THEN <<>>
    ELSE GroupCode(arrangement, outputShape, i)
         \o GatherLoop(arrangement, outputShape, i + 1)

\* generateGetOutputCoords(shape): the return type, the statements, and the
\* variables d0 .. d(rank-1) of the return expression.
generateGetOutputCoords(arrangement, outputShape, shape) ==
    [dtype |-> getCoordsDataType(Len(shape)),
     gather |-> GatherLoop(arrangement, outputShape, 1),
     dimensions |-> [k \in 1..Len(shape) |-> DVar(k - 1)]]

NoCoordsCode == [dtype |-> 0, gather |-> <<>>, dimensions |-> <<>>]

(***************************************************************************)
(* The constructor.  It throws exactly when one of the three arrayProduct  *)
(* calls of this.dispatch throws; nothing else in it checks its argument.  *)
(***************************************************************************)
\* Variant of ConstructorThrows that also rejects shapes whose rank is not 4.
ConstructorThrowsRankChecked(arrangement, c) ==
    \/ \E i \in 1..3 : DispatchComponent(arrangement, c.outShape, i).throws
    \/ Len(c.outShape) # 4
    \/ Len(c.inShape) # 4

\* Variant of ConstructorThrows that also rejects an empty window and an
\* output dimension of size zero.
ConstructorThrowsZeroChecked(arrangement, c) ==
    \/ \E i \in 1..3 : DispatchComponent(arrangement, c.outShape, i).throws
    \/ c.effectiveFilterHeight = 0
    \/ \E k \in 1..Len(c.outShape) : c.outShape[k] = 0

ConstructorThrows(arrangement, c) ==
    \E i \in 1..3 : DispatchComponent(arrangement, c.outShape, i).throws

NewProgram ==
    [status |-> "new", outputShape |-> <<>>, dispatch |-> <<>>,
     coords |-> NoCoordsCode]

Constructed(arrangement, c) ==
    IF ConstructorThrows(arrangement, c)
    THEN [status |-> "error", outputShape |-> <<>>, dispatch |-> <<>>,
          coords |-> NoCoordsCode]
    ELSE [status |-> "built",
          outputShape |-> c.outShape,
          dispatch |-> [i \in 1..3 |->
                          DispatchComponent(arrangement, c.outShape, i).value],
          coords |-> generateGetOutputCoords(arrangement, c.outShape, c.outShape)]

(***************************************************************************)
(* Execution of the emitted getOutputCoords for the invocation id gid      *)
(* (<<x, y, z>>).  env maps each declared variable to its uint value; the  *)
(* values stay far below 2^32, so no operation wraps.                      *)
(***************************************************************************)
Bind(env, v, val) ==
    [u \in (DOMAIN env) \cup {v} |-> IF u = v THEN val ELSE env[u]]

ExecStatement(st, gid, env) ==
    CASE st.op = "declInv" -> Bind(env, st.var, gid[st.axis + 1])
      [] st.op = "declDiv" -> Bind(env, st.var, env[st.idx] \div Val(st.stride))
      [] st.op = "declRem" ->
            Bind(env, st.var, env[st.idx] - env[st.d] * Val(st.stride))
      [] st.op = "subAssign" ->
            Bind(env, st.idx, env[st.idx] - env[st.d] * Val(st.stride))

RECURSIVE ExecGather(_, _, _, _)
ExecGather(gather, k, gid, env) ==
    IF k > Len(gather) THEN env
    ELSE ExecGather(gather, k + 1, gid, ExecStatement(gather[k], gid, env))

\* getOutputCoords(): return dtype(d0, ..., d(rank-1)).
ReturnCoords(dimensions, env) == [k \in 1..Len(dimensions) |-> env[dimensions[k]]]

getOutputCoords(code, gid) ==
    ReturnCoords(code.dimensions, ExecGather(code.gather, 1, gid, <<>>))

\* The statements of gather that declare variable v.
Declarations(gather, v) ==
    {k \in 1..Len(gather) : gather[k].op # "subAssign" /\ gather[k].var = v}

\* The variables statement st reads.
Reads(st) ==
    CASE st.op = "declInv" -> {}
      [] st.op = "declDiv" -> {st.idx}
      [] st.op = "declRem" -> {st.idx, st.d}
      [] st.op = "subAssign" -> {st.idx, st.d}

\* The shading-language compiler accepts getOutputCoords: no variable is
\* declared twice or used before its declaration, every literal is a number,
\* and the returned variables are declared.
CoordsCompile(code) ==
    /\ \A k \in 1..Len(code.gather) :
          /\ code.gather[k].op # "subAssign" =>
                Cardinality(Declarations(code.gather, code.gather[k].var)) = 1
          /\ \A v \in Reads(code.gather[k]) :
                \E m \in 1..(k - 1) : m \in Declarations(code.gather, v)
          /\ code.gather[k].op \in {"declDiv", "declRem", "subAssign"} =>
                IsNum(code.gather[k].stride)
    /\ \A k \in 1..Len(code.dimensions) :
          Declarations(code.gather, code.dimensions[k]) # {}

\* The whole shader compiles: main() takes an ivec4 from getOutputCoords and
\* xShape is an ivec4 built from the elements of inShape.
ShaderCompiles(c, prog) ==
    /\ CoordsCompile(prog.coords)
    /\ prog.coords.dtype = 4
    /\ Len(c.inShape) = 4

\* The invocation ids of a dispatch: dispatch[i] workgroups of tileSize[i]
\* invocations along axis i.
Grid(prog) ==
    IF prog.status = "built" /\ \A i \in 1..3 : IsNum(prog.dispatch[i])
    THEN {<<gx, gy, gz>> :
            gx \in 0..(Val(prog.dispatch[1]) * tileSize[1] - 1),
            gy \in 0..(Val(prog.dispatch[2]) * tileSize[2] - 1),
            gz \in 0..(Val(prog.dispatch[3]) * tileSize[3] - 1)}
    ELSE {}

\* getFlatIndex(coords, shape): the row-major flat index.
getFlatIndex(coords, shape) ==
    ((coords[1] * shape[2] + coords[2]) * shape[3] + coords[3]) * shape[4]
      + coords[4]

(***************************************************************************)
(* The emitted main().  k is the context of one invocation: the geometry   *)
(* c, the input buffer xbuf, batch, d, the window corner, and the value    *)
(* oob an out-of-bounds read of the buffer yields.  acc accumulates        *)
(* minMaxValue and a trace: rows (every xR of line 147), cells (every      *)
(* <<xR, xC>> of line 154) and reads (every coordinate getValue indexes    *)
(* the buffer with).                                                       *)
(***************************************************************************)
Max(a, b) == IF a >= b THEN a ELSE b

\* initializationValue
initializationValue == 0

getValue(k, xR, xC) ==
    IF xC < 0 \/ xC >= k.c.inWidth
    THEN [value |-> initializationValue, read |-> <<>>]
    ELSE LET i == getFlatIndex(<<k.batch, xR, xC, k.d>>, k.c.inShape)
         IN  [value |-> IF i \in DOMAIN k.xbuf THEN k.xbuf[i] ELSE k.oob,
              read |-> <<(<<k.batch, xR, xC, k.d>>)>>]

RECURSIVE ColLoop(_, _, _, _)
ColLoop(k, xR, wC, acc) ==
    IF ~(wC < k.c.effectiveFilterWidth) THEN acc
    ELSE LET xC == k.xCCorner + wC * k.c.dilationWidth
             g == getValue(k, xR, xC)
         IN  ColLoop(k, xR, wC + k.c.dilationWidth,
                     [acc EXCEPT !.minMaxValue = Max(g.value, acc.minMaxValue),
                                 !.cells = Append(acc.cells, <<xR, xC>>),
                                 !.reads = acc.reads \o g.read])

\* Variant of RowSkipped that lets the row just past the input through.
RowSkippedOffByOne(c, xR) == xR < 0 \/ xR > c.inHeight

\* if (xR < 0 || xR >= inHeight) continue;
RowSkipped(c, xR) == xR < 0 \/ xR >= c.inHeight

RECURSIVE RowLoop(_, _, _)
RowLoop(k, wR, acc) ==
    IF ~(wR < k.c.effectiveFilterHeight) THEN acc
    ELSE LET xR == k.xRCorner + wR
             seen == [acc EXCEPT !.rows = Append(acc.rows, xR)]
         IN  RowLoop(k, wR + k.c.dilationHeight,
                     IF RowSkipped(k.c, xR) THEN seen
                     ELSE ColLoop(k, xR, 0, seen))

\* Variant of xRCCorner that adds the padding instead of subtracting it.
xRCCornerPadAdded(c, coords) ==
    <<coords[2] * c.strideHeight + c.padTop, coords[3] * c.strideWidth + c.padLeft>>

\* ivec2 xRCCorner = coords.yz * strides - pads;
xRCCorner(c, coords) ==
    <<coords[2] * c.strideHeight - c.padTop, coords[3] * c.strideWidth - c.padLeft>>

\* What main() leaves: the flat output index, the value handed to setOutput,
\* and the trace of the window scan.
MainResult(index, acc) ==
    [index |-> index, value |-> acc.minMaxValue,
     rows |-> acc.rows, cells |-> acc.cells, reads |-> acc.reads]

\* main() from the coordinates on: the flat output index, the window scan,
\* and the call of setOutput.
MainBody(c, xbuf, outputShape, coords, oob) ==
    LET corner == xRCCorner(c, coords)
        k == [c |-> c, xbuf |-> xbuf, batch |-> coords[1], d |-> coords[4],
              xRCorner |-> corner[1], xCCorner |-> corner[2], oob |-> oob]
    IN  MainResult(getFlatIndex(coords, outputShape),
                   RowLoop(k, 0, [minMaxValue |-> 0, rows |-> <<>>, cells |-> <<>>,
                                  reads |-> <<>>]))

(***************************************************************************)
(* The geometries the constructor is given.  A side is the geometry along  *)
(* one of the two spatial axes.                                            *)
(***************************************************************************)
Sides ==
    [out : 1..MaxOut, in : 1..MaxIn, stride : 1..MaxStride,
     dil : 1..MaxDilation, pad : 0..MaxPad, eff : 1..MaxFilter]

\* A window of one cell, stride 1, no padding: the output is the input size.
PlainSide(n) == [out |-> n, in |-> n, stride |-> 1, dil |-> 1, pad |-> 0, eff |-> 1]

Geometry(b, ch, row, col) ==
    [inShape |-> <<b, row.in, col.in, ch>>,
     outShape |-> <<b, row.out, col.out, ch>>,
     inHeight |-> row.in, inWidth |-> col.in,
     strideHeight |-> row.stride, strideWidth |-> col.stride,
     dilationHeight |-> row.dil, dilationWidth |-> col.dil,
     padTop |-> row.pad, padLeft |-> col.pad,
     effectiveFilterHeight |-> row.eff, effectiveFilterWidth |-> col.eff]

\* A window of two adjacent cells over an input one longer than the output.
PairSides ==
    {s \in Sides : s.in = s.out + 1 /\ s.dil = 1 /\ s.eff = 2}

\* The side whose every parameter is at the other end of its range.
Mirror(s) ==
    [out |-> MaxOut + 1 - s.out, in |-> MaxIn + 1 - s.in,
     stride |-> MaxStride + 1 - s.stride, dil |-> MaxDilation + 1 - s.dil,
     pad |-> MaxPad - s.pad, eff |-> MaxFilter + 1 - s.eff]

\* Rank-4 geometries of positive sizes.  The window varies along the rows
\* only, along the columns only, along both alike, or along both in opposite
\* ways, for one batch and one channel; every batch and channel count comes
\* with every output shape under a window of one cell, and with a window of
\* two adjacent cells.
Geometries ==
    {Geometry(1, 1, row, PlainSide(1)) : row \in Sides}
    \cup {Geometry(1, 1, PlainSide(1), col) : col \in Sides}
    \cup {Geometry(1, 1, s, s) : s \in Sides}
    \cup {Geometry(1, 1, s, Mirror(s)) : s \in Sides}
    \cup {Geometry(b, ch, s, s) :
            b \in 1..MaxBatch, ch \in 1..MaxChannels, s \in PairSides}
    \cup {Geometry(b, ch, PlainSide(h), PlainSide(w)) :
            b \in 1..MaxBatch, ch \in 1..MaxChannels, h \in 1..MaxOut, w \in 1..MaxOut}

RECURSIVE SeqProduct(_, _)
SeqProduct(shape, i) ==
    IF i > Len(shape) THEN 1 ELSE shape[i] * SeqProduct(shape, i + 1)

\* The contents of the input buffer: one value per element of inShape.
Patterns == {"ascending", "mixed"}

PatternValue(p, i) ==
    CASE p = "ascending" -> i + 1
      [] p = "mixed" -> ((i * 3) % 5) - 2

Tensor(p, shape) == [i \in 0..(SeqProduct(shape, 1) - 1) |-> PatternValue(p, i)]

\* What a read outside the buffer may yield.
OobValues == {0, 127}

NoInv ==
    [phase |-> "none", gid |-> <<>>, coords |-> <<>>, index |-> 0, value |-> 0,
     rows |-> <<>>, cells |-> <<>>, reads |-> <<>>]

NotLaunched == [launched |-> FALSE, count |-> <<>>]

Init ==
    /\ dispatchArrangement = FixedArrangement
    /\ convInfo \in Geometries
    /\ x \in {Tensor(p, convInfo.inShape) : p \in Patterns}
    /\ program = NewProgram
    /\ inv = NoInv
    /\ written = NotLaunched

(***************************************************************************)
(* Other configurations: groupings other than [[1], [2], [0, 3]], shapes   *)
(* of rank 3 and 5, sizes of zero, an empty window.                        *)
(***************************************************************************)
Ranks == {3, 4, 5}

RECURSIVE Ascending(_)
Ascending(S) ==
    IF S = {} THEN <<>>
    ELSE LET m == CHOOSE d \in S : \A e \in S : d <= e
         IN  <<m>> \o Ascending(S \ {m})

\* Every assignment of the dimensions 0 .. rank-1 to the three axes, each
\* group in ascending order; a group may be empty.
Assignments(rank) ==
    {[i \in 1..3 |-> Ascending({d \in 0..(rank - 1) : f[d] = i})] :
        f \in [0..(rank - 1) -> 1..3]}

\* Groupings whose groups are not in ascending order, and groupings of five
\* dimensions.
OtherArrangements(rank) ==
    CASE rank = 3 -> {<<(<<2, 1>>), (<<0>>), <<>> >>}
      [] rank = 4 -> {<<(<<3>>), (<<2>>), (<<1, 0>>)>>,
                      <<(<<3, 0>>), (<<1>>), (<<2>>)>>}
      [] rank = 5 -> {<<(<<1>>), (<<2>>), (<<0, 3, 4>>)>>,
                      <<(<<0, 1, 2>>), (<<3>>), (<<4>>)>>,
                      <<(<<4>>), (<<3, 1, 0>>), (<<2>>)>>,
                      <<(<<2, 0, 4>>), (<<1>>), (<<3>>)>>,
                      <<(<<0, 1>>), (<<2, 3>>), (<<4>>)>>,
                      <<(<<4, 2>>), (<<1>>), (<<3, 0>>)>>,
                      <<(<<0, 1, 2, 3>>), (<<4>>), <<>> >>,
                      <<(<<0, 1, 2, 3, 4>>), <<>>, <<>> >>}

Arrangements(rank) ==
    (IF rank = 5 THEN {} ELSE Assignments(rank)) \cup OtherArrangements(rank)

\* A window of one cell over an input of shape inShape, effectiveFilterHeight
\* apart.
GeometryOf(outShape, inShape, effectiveFilterHeight) ==
    [inShape |-> inShape, outShape |-> outShape,
     inHeight |-> inShape[2], inWidth |-> inShape[3],
     strideHeight |-> 1, strideWidth |-> 1,
     dilationHeight |-> 1, dilationWidth |-> 1,
     padTop |-> 0, padLeft |-> 0,
     effectiveFilterHeight |-> effectiveFilterHeight, effectiveFilterWidth |-> 1]

\* The input shapes given with outShape: the same shape and, for a rank-4
\* output, one dimension less and one more.
InShapes(outShape) ==
    IF Len(outShape) = 4
    THEN {outShape, SubSeq(outShape, 1, 3), outShape \o <<1>>}
    ELSE {outShape}

InitCfg ==
    /\ \E rank \in Ranks :
         \/ /\ dispatchArrangement \in Arrangements(rank)
            /\ \E outShape \in [1..rank -> 1..MaxDim] :
                 convInfo = GeometryOf(outShape, outShape, 1)
         \/ /\ dispatchArrangement = FixedArrangement
            /\ \E outShape \in [1..rank -> 0..MaxDim] :
                 \E inShape \in InShapes(outShape) :
                    \E eff \in 0..1 :
                       convInfo = GeometryOf(outShape, inShape, eff)
    /\ x = Tensor("ascending", convInfo.inShape)
    /\ program = NewProgram
    /\ inv = NoInv
    /\ written = NotLaunched

(***************************************************************************)
(* Actions.                                                                *)
(***************************************************************************)
\* new MaxPoolProgram(convInfo)
Construct ==
    /\ program.status = "new"
    /\ program' = Constructed(dispatchArrangement, convInfo)
    /\ UNCHANGED <<convInfo, dispatchArrangement, x, inv, written>>

\* The flat index main() hands to setOutput in invocation gid.
IndexOf(prog, gid) == getFlatIndex(getOutputCoords(prog.coords, gid), prog.outputShape)

\* The backend runs the program: every invocation of the grid executes
\* main(); count[i] is the number of invocations that call setOutput(i, _).
Dispatch ==
    /\ program.status = "built"
    /\ ~written.launched
    /\ inv.phase = "none"
    /\ ShaderCompiles(convInfo, program)
    /\ \E idx \in {[g \in Grid(program) |-> IndexOf(program, g)]} :
         written' =
           [launched |-> TRUE,
            count |-> [i \in {idx[g] : g \in DOMAIN idx} |->
                         Cardinality({g \in DOMAIN idx : idx[g] = i})]]
    /\ UNCHANGED <<convInfo, dispatchArrangement, x, program, inv>>

\* One invocation (gid is drawn from Invocations) enters main() and calls
\* getOutputCoords().
GetOutputCoords(gid) ==
    /\ program.status = "built"
    /\ ~written.launched
    /\ inv.phase = "none"
    /\ inv' = [NoInv EXCEPT !.phase = "coords", !.gid = gid,
                            !.coords = getOutputCoords(program.coords, gid)]
    /\ UNCHANGED <<convInfo, dispatchArrangement, x, program, written>>

\* The invocation runs the rest of main() and calls setOutput.
Main ==
    /\ inv.phase = "coords"
    /\ ShaderCompiles(convInfo, program)
    /\ \E m0 \in {MainBody(convInfo, x, program.outputShape, inv.coords, 0)} :
         LET inBuffer == \A r \in 1..Len(m0.reads) :
                            getFlatIndex(m0.reads[r], convInfo.inShape) \in DOMAIN x
         IN  \E m \in IF inBuffer THEN {m0}
                      ELSE {MainBody(convInfo, x, program.outputShape, inv.coords, oob) :
                              oob \in OobValues} :
               inv' = [inv EXCEPT !.phase = "done", !.index = m.index,
                                  !.value = m.value, !.rows = m.rows,
                                  !.cells = m.cells, !.reads = m.reads]
    /\ UNCHANGED <<convInfo, dispatchArrangement, x, program, written>>

\* The invocation ids of the grid, once the program is built and idle and
\* if getOutputCoords compiles.
Invocations ==
    IF program.status = "built" /\ ~written.launched /\ inv.phase = "none"
       /\ CoordsCompile(program.coords)
    THEN Grid(program) ELSE {}

Next ==
    \/ Construct
    \/ Dispatch
    \/ \E gid \in Invocations : GetOutputCoords(gid)
    \/ Main

Spec == Init /\ [][Next]_vars

SpecCfg == InitCfg /\ [][Next]_vars

(***************************************************************************)
(* Properties.                                                             *)
(***************************************************************************)
\* The program was built for a rank-4 output shape of positive sizes under
\* the grouping [[1], [2], [0, 3]].
BuiltFixed ==
    /\ program.status = "built"
    /\ dispatchArrangement = FixedArrangement
    /\ Len(convInfo.outShape) = 4
    /\ \A k \in 1..4 : convInfo.outShape[k] >= 1

OutB == convInfo.outShape[1]
OutH == convInfo.outShape[2]
OutW == convInfo.outShape[3]
OutC == convInfo.outShape[4]
OutSize == OutB * OutH * OutW * OutC

\* C1: after a dispatch of the grid, no invocation has written an index
\* outside [0, B*H*W*C) and every index in that range has been written by
\* exactly one invocation.
C1_ExactGrid ==
    (BuiltFixed /\ written.launched) =>
        /\ \A i \in DOMAIN written.count : 0 <= i /\ i < OutSize
        /\ \A i \in 0..(OutSize - 1) :
              i \in DOMAIN written.count /\ written.count[i] = 1

\* The product of the sizes of group i of [[1], [2], [0, 3]].
GroupSize(i) == CASE i = 1 -> OutH [] i = 2 -> OutW [] i = 3 -> OutB * OutC

\* C2: for the fixed grouping and a shape of positive sizes, each component
\* of dispatch is a positive integer, the least n with
\* n * tileSize[axis] >= the product of the group's sizes, so the grid has at
\* least B*H*W*C invocations.
C2_DispatchSize ==
    BuiltFixed =>
        /\ Len(program.dispatch) = 3
        /\ \A i \in 1..3 :
              /\ IsNum(program.dispatch[i])
              /\ Val(program.dispatch[i]) >= 1
              /\ Val(program.dispatch[i]) * tileSize[i] >= GroupSize(i)
              /\ (Val(program.dispatch[i]) - 1) * tileSize[i] < GroupSize(i)
        /\ Val(program.dispatch[1]) * Val(program.dispatch[2])
             * Val(program.dispatch[3]) * tileSize[1] * tileSize[2] * tileSize[3]
           >= OutSize

\* A built program whose height and width are odd: both are rounded up.
C2_Witness ==
    /\ BuiltFixed
    /\ convInfo.outShape = <<2, 3, 3, 2>>
    /\ program.dispatch = <<Num(2), Num(2), Num(4)>>

\* The row-major flat index of coords in the output shape.
RowMajor(coords) ==
    coords[1] * OutH * OutW * OutC + coords[2] * OutW * OutC + coords[3] * OutC
      + coords[4]

CoordsInRange(coords) ==
    /\ 0 <= coords[1] /\ coords[1] < OutB
    /\ 0 <= coords[2] /\ coords[2] < OutH
    /\ 0 <= coords[3] /\ coords[3] < OutW
    /\ 0 <= coords[4] /\ coords[4] < OutC

\* The invocation ids x < H, y < W, z < B*C.
ProperIds == {<<gx, gy, gz>> : gx \in 0..(OutH - 1), gy \in 0..(OutW - 1),
                               gz \in 0..(OutB * OutC - 1)}

\* C3: for the fixed grouping, getOutputCoords of an id (x, y, z) with x < H,
\* y < W, z < B*C is (z / C, x, y, z - (z / C) * C), it lies in the output
\* shape, and every flat index in [0, B*H*W*C) is the row-major index of the
\* coordinates of exactly one such id.
C3_RoundTrip ==
    BuiltFixed =>
        /\ \A g \in IF inv.phase = "none" /\ ~written.launched THEN ProperIds ELSE {} :
              LET coords == getOutputCoords(program.coords, g)
              IN  /\ coords = <<g[3] \div OutC, g[1], g[2],
                                g[3] - (g[3] \div OutC) * OutC>>
                  /\ CoordsInRange(coords)
        /\ (inv.phase = "none" /\ ~written.launched) =>
              LET flat == [g \in ProperIds |->
                             RowMajor(getOutputCoords(program.coords, g))]
              IN  \A i \in 0..(OutSize - 1) :
                     Cardinality({g \in ProperIds : flat[g] = i}) = 1
        /\ (inv.phase # "none" /\ inv.gid \in ProperIds) =>
              /\ inv.coords = getOutputCoords(program.coords, inv.gid)
              /\ CoordsInRange(inv.coords)

\* An invocation of the second batch has recovered its coordinates.
C3_Witness ==
    /\ BuiltFixed
    /\ convInfo.outShape = <<2, 3, 3, 2>>
    /\ inv.phase = "coords"
    /\ inv.gid = <<2, 1, 3>>
    /\ inv.coords = <<1, 2, 1, 1>>

\* An invocation has finished main() for a rank-4 geometry of positive sizes
\* whose input has the batch and channel sizes of the output.
Done ==
    /\ BuiltFixed
    /\ inv.phase = "done"
    /\ Len(convInfo.inShape) = 4
    /\ convInfo.inShape = <<OutB, convInfo.inHeight, convInfo.inWidth, OutC>>

SetMax(S) == CHOOSE m \in S : \A v \in S : v <= m

\* The input rows and columns of the window of output cell (r, c) that lie
\* inside the input, for a window of effectiveFilter consecutive cells.
WindowRows(r) ==
    {xR \in 0..(convInfo.inHeight - 1) :
        /\ r * convInfo.strideHeight - convInfo.padTop <= xR
        /\ xR < r * convInfo.strideHeight - convInfo.padTop
                  + convInfo.effectiveFilterHeight}
WindowCols(c) ==
    {xC \in 0..(convInfo.inWidth - 1) :
        /\ c * convInfo.strideWidth - convInfo.padLeft <= xC
        /\ xC < c * convInfo.strideWidth - convInfo.padLeft
                  + convInfo.effectiveFilterWidth}

\* x[b, xR, xC, ch] of the row-major input tensor.
XAt(b, xR, xC, ch) ==
    x[b * convInfo.inHeight * convInfo.inWidth * OutC + xR * convInfo.inWidth * OutC
        + xC * OutC + ch]

\* The max-pool value with zero padding and a floor of 0.
PoolValue(coords) ==
    SetMax({0} \cup {XAt(coords[1], xR, xC, coords[4]) :
                       xR \in WindowRows(coords[2]), xC \in WindowCols(coords[3])})

\* The 4x4 input with a 2x2 window and stride 2, padded by pad on top and left.
Scenario(pad) ==
    Geometry(1, 1, [out |-> 2, in |-> 4, stride |-> 2, dil |-> 1, pad |-> pad, eff |-> 2],
                   [out |-> 2, in |-> 4, stride |-> 2, dil |-> 1, pad |-> pad, eff |-> 2])

\* C4: with dilation 1, the value main() writes for an in-range output
\* coordinate is the maximum of 0 and of the input over the part of the
\* window inside the input; it is 0 when no row of the window is inside the
\* input; the 4x4 input 1..16 with a 2x2 window and stride 2 gives
\* [6, 8, 14, 16] without padding and [1, 3, 9, 11] with padTop = padLeft = 1.
C4_MaxPoolValue ==
    (Done /\ convInfo.dilationHeight = 1 /\ convInfo.dilationWidth = 1
          /\ CoordsInRange(inv.coords)) =>
        /\ inv.value = PoolValue(inv.coords)
        /\ inv.index = RowMajor(inv.coords)
        /\ WindowRows(inv.coords[2]) = {} => inv.value = 0
        /\ (convInfo = Scenario(0) /\ x = Tensor("ascending", convInfo.inShape)) =>
              inv.value = <<6, 8, 14, 16>>[inv.index + 1]
        /\ (convInfo = Scenario(1) /\ x = Tensor("ascending", convInfo.inShape)) =>
              inv.value = <<1, 3, 9, 11>>[inv.index + 1]

\* The last output cell of the padded 4x4 scenario has been computed.
C4_Witness ==
    /\ Done
    /\ convInfo = Scenario(1)
    /\ x = Tensor("ascending", convInfo.inShape)
    /\ inv.coords = <<0, 1, 1, 0>>
    /\ inv.index = 3
    /\ inv.value = 11

\* The elements of a sequence.
Range(seq) == {seq[i] : i \in 1..Len(seq)}

\* The offsets k * dilation with 0 <= k * dilation < effectiveFilter.
Offsets(dilation, effectiveFilter) ==
    {k * dilation : k \in {k \in 0..effectiveFilter : k * dilation < effectiveFilter}}

\* C5: the window loops visit exactly the rows xRCorner + k * dilationHeight
\* with 0 <= k * dilationHeight < effectiveFilterHeight and, in each row that
\* is inside the input, exactly the columns xCCorner + m * dilationWidth with
\* 0 <= m * dilationWidth < effectiveFilterWidth, each once.
C5_DilatedWindow ==
    (Done /\ (convInfo.dilationHeight > 1 \/ convInfo.dilationWidth > 1)) =>
        LET corner == <<inv.coords[2] * convInfo.strideHeight - convInfo.padTop,
                        inv.coords[3] * convInfo.strideWidth - convInfo.padLeft>>
            rowsClaimed == {corner[1] + o :
                              o \in Offsets(convInfo.dilationHeight,
                                            convInfo.effectiveFilterHeight)}
            colsClaimed == {corner[2] + o :
                              o \in Offsets(convInfo.dilationWidth,
                                            convInfo.effectiveFilterWidth)}
            rowsInside == {r \in rowsClaimed : 0 <= r /\ r < convInfo.inHeight}
        IN  /\ Range(inv.rows) = rowsClaimed
            /\ Len(inv.rows) = Cardinality(rowsClaimed)
            /\ Range(inv.cells) = {<<r, c>> : r \in rowsInside, c \in colsClaimed}
            /\ Len(inv.cells) = Cardinality(rowsInside) * Cardinality(colsClaimed)

\* C10: every coordinate with which getValue indexes the input buffer, in
\* any invocation of the grid, lies inside inShape, so the flat read index
\* is inside the buffer.
C10_ReadsInBounds ==
    Done =>
        \A k \in 1..Len(inv.reads) :
            LET r == inv.reads[k]
            IN  /\ 0 <= r[1] /\ r[1] < OutB
                /\ 0 <= r[2] /\ r[2] < convInfo.inHeight
                /\ 0 <= r[3] /\ r[3] < convInfo.inWidth
                /\ 0 <= r[4] /\ r[4] < OutC
                /\ getFlatIndex(r, convInfo.inShape) \in DOMAIN x
                /\ getFlatIndex(r, convInfo.inShape)
                     < OutB * convInfo.inHeight * convInfo.inWidth * OutC

\* An invocation beyond the last output row has read the input.
C10_Witness ==
    /\ Done
    /\ inv.coords[2] >= OutH
    /\ inv.coords[1] = 1
    /\ Len(inv.reads) >= 2

\* Some dispatch group contains no dimension.
SomeGroupEmpty == \E i \in 1..3 : Len(dispatchArrangement[i]) = 0

NoProgram ==
    /\ program.outputShape = <<>>
    /\ program.dispatch = <<>>
    /\ program.coords = NoCoordsCode

\* C6: the constructor raises the empty-product error exactly when a dispatch
\* group contains no dimension, and then returns no program; it never raises
\* it for the grouping [[1], [2], [0, 3]].
C6_EmptyGroupRejected ==
    program.status # "new" =>
        /\ SomeGroupEmpty => (program.status = "error" /\ NoProgram)
        /\ program.status = "error" => SomeGroupEmpty
        /\ dispatchArrangement = FixedArrangement => program.status = "built"

\* The constructor has thrown for a grouping whose third group is empty
\* while the other two hold all four dimensions.
C6_Witness ==
    /\ program.status = "error"
    /\ dispatchArrangement = <<(<<0, 3>>), (<<1, 2>>), <<>> >>
    /\ convInfo.outShape = <<2, 2, 2, 2>>

\* The geometry is degenerate: an empty window, or an output dimension of
\* size zero in a rank-4 shape.
Degenerate ==
    \/ convInfo.effectiveFilterHeight = 0
    \/ /\ Len(convInfo.outShape) = 4
       /\ \E k \in 1..4 : convInfo.outShape[k] = 0

\* C7 as stated: construction with a degenerate geometry fails and produces
\* no program.
C7_DegenerateRejected ==
    (program.status # "new" /\ dispatchArrangement = FixedArrangement /\ Degenerate) =>
        (program.status = "error" /\ NoProgram)

\* The sizes of group i of the fixed grouping in a rank-4 output shape.
FixedGroupSizes(i) ==
    CASE i = 1 -> {OutH} [] i = 2 -> {OutW} [] i = 3 -> {OutB, OutC}

\* C7 as amended: under the fixed grouping a degenerate geometry is accepted:
\* the program is built; a group with a dimension of size zero gets the
\* dispatch component 0, so the grid is empty; with effectiveFilterHeight = 0
\* an invocation visits no row, reads nothing and writes 0.
C7_DegenerateAccepted ==
    (program.status # "new" /\ dispatchArrangement = FixedArrangement /\ Degenerate) =>
        /\ program.status = "built"
        /\ program.outputShape = convInfo.outShape
        /\ Len(program.dispatch) = 3
        /\ Len(convInfo.outShape) = 4 =>
              \A i \in 1..3 :
                 (0 \in FixedGroupSizes(i)) =>
                    (program.dispatch[i] = Num(0) /\ Grid(program) = {})
        /\ (convInfo.effectiveFilterHeight = 0 /\ inv.phase = "done") =>
              (inv.rows = <<>> /\ inv.reads = <<>> /\ inv.value = 0)

\* An invocation has finished main() under an empty window over an input
\* of positive values.
C7_Witness ==
    /\ dispatchArrangement = FixedArrangement
    /\ convInfo.effectiveFilterHeight = 0
    /\ convInfo.outShape = <<2, 2, 2, 2>>
    /\ convInfo.inShape = <<2, 2, 2, 2>>
    /\ inv.phase = "done"
    /\ inv.gid = <<1, 1, 3>>
    /\ inv.value = 0

\* Every group of the grouping holds a dimension.
GroupsNonEmpty == \A i \in 1..3 : Len(dispatchArrangement[i]) > 0

\* C8 as stated: the constructor fails whenever outShape or inShape does not
\* have 4 elements, and succeeds with a 3-element dispatch for shapes of
\* rank 4 under non-empty groups.
C8_RankChecked ==
    program.status # "new" =>
        /\ (Len(convInfo.outShape) # 4 \/ Len(convInfo.inShape) # 4) =>
              program.status = "error"
        /\ (Len(convInfo.outShape) = 4 /\ Len(convInfo.inShape) = 4 /\ GroupsNonEmpty) =>
              (program.status = "built" /\ Len(program.dispatch) = 3)

\* C8 as amended: the constructor checks no rank.  Under non-empty groups it
\* succeeds with a 3-element dispatch whatever the ranks of outShape and
\* inShape; the components are numbers when every dimension the groups name
\* exists, and the component of a group that names a missing dimension is
\* NaN.
C8_RankUnchecked ==
    (program.status # "new" /\ GroupsNonEmpty) =>
        /\ program.status = "built"
        /\ Len(program.dispatch) = 3
        /\ program.outputShape = convInfo.outShape
        /\ \A i \in 1..3 :
              IsNum(program.dispatch[i]) <=>
                 \A j \in 1..Len(dispatchArrangement[i]) :
                    dispatchArrangement[i][j] < Len(convInfo.outShape)

\* A program built for an output shape of rank 3 under the fixed grouping.
C8_Witness ==
    /\ program.status = "built"
    /\ dispatchArrangement = FixedArrangement
    /\ convInfo.outShape = <<2, 2, 2>>
    /\ program.dispatch = <<Num(1), Num(1), Undefined>>

\* The grouping is a partition of the dimensions of the output shape into
\* three non-empty groups, and the sizes are positive.
IsPartition ==
    /\ GroupsNonEmpty
    /\ \A d \in 0..(Len(convInfo.outShape) - 1) :
          Cardinality({<<i, j>> \in (1..3) \X (1..Len(convInfo.outShape)) :
                         j <= Len(dispatchArrangement[i])
                         /\ dispatchArrangement[i][j] = d}) = 1
    /\ \A i \in 1..3 : \A j \in 1..Len(dispatchArrangement[i]) :
          dispatchArrangement[i][j] \in 0..(Len(convInfo.outShape) - 1)
    /\ \A k \in 1..Len(convInfo.outShape) : convInfo.outShape[k] >= 1

\* The size of dimension number j of group arr, and the row-major stride of
\* that dimension within the group.
SizeIn(arr, j) == convInfo.outShape[arr[j] + 1]
RECURSIVE StrideIn(_, _)
StrideIn(arr, j) ==
    IF j = Len(arr) THEN 1 ELSE SizeIn(arr, j + 1) * StrideIn(arr, j + 1)

RECURSIVE DigitSum(_, _, _)
DigitSum(arr, coords, j) ==
    IF j > Len(arr) THEN 0
    ELSE coords[arr[j] + 1] * StrideIn(arr, j) + DigitSum(arr, coords, j + 1)

\* C9: for a partition into three non-empty groups and positive sizes, the
\* emitted code declares every coordinate exactly once: by the invocation-id
\* component for a group of one dimension, by a division of the running
\* remainder for a dimension that is not the last of its group, and as the
\* final remainder for the last; and for an id component below the product
\* of the group's sizes the coordinates of the group are its mixed-radix
\* digits under the group's row-major strides.
C9_MixedRadix ==
    (program.status = "built" /\ IsPartition) =>
        /\ CoordsCompile(program.coords)
        /\ \A d \in 0..(Len(convInfo.outShape) - 1) :
              Cardinality(Declarations(program.coords.gather, DVar(d))) = 1
        /\ \A i \in 1..3 :
              LET arr == dispatchArrangement[i]
                  decl(j) == program.coords.gather[
                                CHOOSE k \in Declarations(program.coords.gather,
                                                          DVar(arr[j])) : TRUE]
              IN  \A j \in 1..Len(arr) :
                     /\ decl(j).op = IF Len(arr) = 1 THEN "declInv"
                                     ELSE IF j = Len(arr) THEN "declRem" ELSE "declDiv"
                     /\ decl(j).op = "declDiv" => decl(j).stride = Num(StrideIn(arr, j))
        /\ inv.phase = "coords" =>
              \A i \in 1..3 :
                 LET arr == dispatchArrangement[i]
                 IN  inv.gid[i] < StrideIn(arr, 1) * SizeIn(arr, 1) =>
                        /\ \A j \in 1..Len(arr) :
                              /\ 0 <= inv.coords[arr[j] + 1]
                              /\ inv.coords[arr[j] + 1] < SizeIn(arr, j)
                        /\ DigitSum(arr, inv.coords, 1) = inv.gid[i]

\* Coordinates recovered from a group of three dimensions that are not in
\* ascending order.
C9_Witness ==
    /\ program.status = "built"
    /\ dispatchArrangement = <<(<<2, 0, 4>>), (<<1>>), (<<3>>)>>
    /\ convInfo.outShape = <<2, 2, 2, 1, 2>>
    /\ inv.phase = "coords"
    /\ inv.gid = <<7, 1, 0>>
    /\ inv.coords = <<1, 1, 1, 0, 1>>

=============================================================================
